---- MODULE Spec2Model ----
(***************************************************************************)
(* Model of compare_data (src/parquet_compare_ordered_table.py): the       *)
(* ordered-table comparator.  A frame is a pandas DataFrame: a set of      *)
(* columns, a dtype per column, an index (one label per row) and the rows. *)
(* One action per phase of compare_data, the phases being the blocks the   *)
(* function announces with its print calls.                                *)
(*                                                                         *)
(* Conventions:                                                            *)
(*  - an exception leaving compare_data ends the run in pc = "raised",     *)
(*    with its class in `raised`; a return ends it in pc = "done";         *)
(*  - a cell of a data column is Null or a number 1..MaxVal; in a column   *)
(*    of dtype object the number stands for a text, which equals no        *)
(*    number; a cell of a hook column is an array;                         *)
(*  - sorted column lists are kept as sets, the mismatch table as its set  *)
(*    of keys and whether the mismatch_pct column was added (the           *)
(*    percentages themselves are not computed), mismatch_percent as the    *)
(*    fraction num / den;                                                  *)
(*  - index_cols names at most one column, the key column id;              *)
(*  - the chained assignment of the hook writes into the frame.            *)
(***************************************************************************)
EXTENDS Integers, Sequences, FiniteSets, TLC

VARIABLES in1, in2, index_cols, ignore_cols, df1, df2, result, pc, raised

vars == <<in1, in2, index_cols, ignore_cols, df1, df2, result, pc, raised>>

\* ---------------------------------------------------------------- bounds
MaxRows == 2        \* rows of a loaded table: 0..MaxRows
MaxKey == 1         \* values of the key column id: 0..MaxKey
MaxVal == 2         \* concrete values of a data cell: 1..MaxVal

\* ------------------------------------------------------------- vocabulary
Null == -1          \* a cell for which isnull() is true (NaN / None)

HookCols == {"pcodes_power_poles", "pcodes_buildings", "pcodes_power_lines"}

DataCols == {"id", "val", "dbg"}

\* the order in which the files store their columns
ColOrder == <<"id", "val", "dbg", "pcodes_power_poles", "pcodes_buildings",
              "pcodes_power_lines">>

DTypes == {"int", "float", "object"}

None == [some |-> FALSE]

Some(v) == [some |-> TRUE, v |-> v]

Range(s) == {s[i] : i \in 1..Len(s)}

RECURSIVE SortedSeq(_)
\* sorted(S) for a set of integers
SortedSeq(S) ==
  IF S = {} THEN <<>>
  ELSE LET m == CHOOSE x \in S : \A y \in S : x <= y
       IN <<m>> \o SortedSeq(S \ {m})

RECURSIVE NpSort(_)
\* np.sort of a one-dimensional cell
NpSort(s) ==
  IF Len(s) <= 1 THEN s
  ELSE LET m == CHOOSE i \in 1..Len(s) : \A j \in 1..Len(s) : s[i] <= s[j]
       IN <<s[m]>> \o NpSort([k \in 1..(Len(s) - 1) |-> IF k < m THEN s[k] ELSE s[k + 1]])

\* ----------------------------------------------------------------- frames
\* a frame as load_file returns it: RangeIndex 0..n-1
MkFrame(cols, dt, rows) ==
  [columns |-> cols, dtype |-> dt, index |-> [i \in 1..Len(rows) |-> i - 1], rows |-> rows]

LenDf(df) == Len(df.rows)

\* df[col] as the function label -> cell (labels are unique when it is used)
Cell(df, i, col) == df.rows[i][col]

IsNull(c) == c = Null

\* df.drop(cols, axis=1)
Drop(df, cols) ==
  [df EXCEPT !.columns = df.columns \ cols,
             !.dtype = [c \in df.columns \ cols |-> df.dtype[c]],
             !.rows = [i \in 1..Len(df.rows) |-> [c \in df.columns \ cols |-> df.rows[i][c]]]]

\* df[mask]: the rows at the positions of keep, in order
RECURSIVE KeepPositions(_, _)
KeepPositions(n, keep) ==
  IF n = 0 THEN <<>>
  ELSE KeepPositions(n - 1, keep) \o (IF n \in keep THEN <<n>> ELSE <<>>)

TakePositions(df, pos) ==
  [df EXCEPT !.index = [i \in 1..Len(pos) |-> df.index[pos[i]]],
             !.rows = [i \in 1..Len(pos) |-> df.rows[pos[i]]]]

\* position of label k in df.index (labels unique)
PosOf(df, k) == CHOOSE i \in 1..LenDf(df) : df.index[i] = k

\* df.loc[ids] for a list of labels
Loc(df, ids) == TakePositions(df, [i \in 1..Len(ids) |-> PosOf(df, ids[i])])

IndexSet(df) == Range(df.index)

\* ----------------------------------------------------------------- result
\* CompareResult() with __post_init__ applied
NewResult ==
  [match |-> TRUE, data_match |-> TRUE,
   right_duplicate |-> FALSE, left_duplicate |-> FALSE,
   left_only_columns |-> None, right_only_columns |-> None,
   index_match |-> TRUE,
   left_index_duplicates |-> None, right_index_duplicates |-> None,
   common_index_count |-> 0, left_index_count |-> 0, right_index_count |-> 0,
   left_only_indexes |-> <<>>, right_only_indexes |-> <<>>,
   column_results |-> <<>>]

\* ------------------------------------------------ phase 1: load and filter
\* the statements of the pre-normalisation hook, in program order
HookSteps ==
  << <<1, "pcodes_power_poles">>, <<2, "pcodes_power_poles">>,
     <<1, "pcodes_buildings">>, <<2, "pcodes_buildings">>,
     <<1, "pcodes_power_lines">>, <<2, "pcodes_power_lines">> >>

\* df.<col>[0] = np.sort(df.<col>[0]): attribute access fails on a frame
\* without the column, label 0 is missing from an empty frame
HookStep(df, col) ==
  IF col \notin df.columns THEN [raised |-> "AttributeError", df |-> df]
  ELSE IF 0 \notin IndexSet(df) THEN [raised |-> "KeyError", df |-> df]
  ELSE [raised |-> "none",
        df |-> [df EXCEPT !.rows[PosOf(df, 0)][col] = NpSort(@)]]

RECURSIVE PreNormalize(_, _, _)
\* the hook statements from step k on: the first failing statement raises
PreNormalize(a, b, k) ==
  IF k > Len(HookSteps) THEN [raised |-> "none", df1 |-> a, df2 |-> b]
  ELSE LET side == HookSteps[k][1]
           col == HookSteps[k][2]
           r == HookStep(IF side = 1 THEN a ELSE b, col)
       IN IF r.raised # "none" THEN [raised |-> r.raised, df1 |-> a, df2 |-> b]
          ELSE IF side = 1 THEN PreNormalize(r.df, b, k + 1)
          ELSE PreNormalize(a, r.df, k + 1)

\* the filter dropping whichever ignored names the side has
IgnoreFilterPartial(df, ign) ==
  IF ign # {} THEN Drop(df, ign \cap df.columns) ELSE df

\* the ignore-columns pre-filter of one side
IgnoreFilter(df, ign) ==
  IF ign # {} /\ ign \subseteq df.columns THEN Drop(df, ign) ELSE df

\* the column-set comparison (the lists are modelled as the sets they sort)
CompareColumnSets(res, a, b) ==
  IF a.columns # b.columns
  THEN [res EXCEPT !.match = FALSE,
                   !.left_only_columns = Some(a.columns \ b.columns),
                   !.right_only_columns = Some(b.columns \ a.columns)]
  ELSE res

\* ------------------------------------------------------ phase 2: indexing
Perms(n) == {p \in [1..n -> 1..n] : \A i, j \in 1..n : i # j => p[i] # p[j]}

\* df.sort_values(col): the default sort is not stable, rows with equal keys
\* may come out in any order
SortValues(df, col) ==
  {TakePositions(df, p) :
     p \in {q \in Perms(LenDf(df)) :
              \A i \in 1..(LenDf(df) - 1) :
                df.rows[q[i]][col] <= df.rows[q[i + 1]][col]}}

\* df.set_index(col): the column becomes the index and leaves the columns
SetIndex(df, col) ==
  Drop([df EXCEPT !.index = [i \in 1..LenDf(df) |-> df.rows[i][col]]], {col})

\* the try block of one side: a KeyError leaves the frame as it was
IndexOutcomes(df, cols) ==
  IF Range(cols) \subseteq df.columns
  THEN {SetIndex(s, cols[1]) : s \in SortValues(df, cols[1])}
  ELSE {df}

\* ---------------------------------------------------- phase 3: duplicates
\* duplicates looked for among whole rows (df.duplicated) instead of keys
DuplicatedWholeRows(df) ==
  {i \in 1..LenDf(df) :
     \E j \in 1..LenDf(df) :
       j # i /\ df.index[j] = df.index[i] /\ df.rows[j] = df.rows[i]}

\* df.index.duplicated(keep=False), as the set of flagged positions
DuplicatedAll(df) ==
  {i \in 1..LenDf(df) : \E j \in 1..LenDf(df) : j # i /\ df.index[j] = df.index[i]}

\* ~df.index.duplicated(keep="first"), as the set of kept positions
FirstOccurrences(df) ==
  {i \in 1..LenDf(df) : \A j \in 1..(i - 1) : df.index[j] # df.index[i]}

\* df.index[dups].value_counts()
ValueCounts(df, dups) ==
  [k \in {df.index[i] : i \in dups} |-> Cardinality({i \in dups : df.index[i] = k})]

DropDuplicates(df) == TakePositions(df, KeepPositions(LenDf(df), FirstOccurrences(df)))

\* ValidateLeft without `result.match = False`
ValidateLeftKeepsMatch(res, df) ==
  IF DuplicatedAll(df) # {}
  THEN [res EXCEPT !.left_duplicate = TRUE,
                   !.left_index_duplicates = Some(ValueCounts(df, DuplicatedAll(df)))]
  ELSE res

ValidateLeft(res, df) ==
  IF DuplicatedAll(df) # {}
  THEN [res EXCEPT !.left_duplicate = TRUE, !.match = FALSE,
                   !.left_index_duplicates = Some(ValueCounts(df, DuplicatedAll(df)))]
  ELSE res

ValidateRight(res, df) ==
  IF DuplicatedAll(df) # {}
  THEN [res EXCEPT !.right_duplicate = TRUE, !.match = FALSE,
                   !.right_index_duplicates = Some(ValueCounts(df, DuplicatedAll(df)))]
  ELSE res

Deduplicated(df) == IF DuplicatedAll(df) # {} THEN DropDuplicates(df) ELSE df

\* ------------------------------------------------ phase 4: index alignment
\* df1.index.equals(df2.index): same labels in the same order
IndexEquals(a, b) == a.index = b.index

\* CompareIndexes without the `if not common_ids: return result`
CompareIndexesNoReturn(res, a, b) ==
  LET counted == [res EXCEPT !.left_index_count = LenDf(a),
                             !.right_index_count = LenDf(b)]
      common_ids == SortedSeq(IndexSet(a) \cap IndexSet(b))
  IN IF ~IndexEquals(a, b)
     THEN [stop |-> FALSE,
           res |-> [counted EXCEPT
                      !.match = FALSE, !.index_match = FALSE,
                      !.left_only_indexes = SortedSeq(IndexSet(a) \ IndexSet(b)),
                      !.right_only_indexes = SortedSeq(IndexSet(b) \ IndexSet(a)),
                      !.common_index_count = Len(common_ids)],
           df1 |-> Loc(a, common_ids),
           df2 |-> Loc(b, common_ids)]
     ELSE [stop |-> FALSE,
           res |-> [counted EXCEPT !.common_index_count = LenDf(a)],
           df1 |-> a, df2 |-> b]

\* the `if not df1.index.equals(df2.index)` block and its else; .stop tells
\* the early return on an empty common key set.  list(set & set) has no
\* defined order: both frames are taken in the same (here ascending) order
CompareIndexes(res, a, b) ==
  LET counted == [res EXCEPT !.left_index_count = LenDf(a),
                             !.right_index_count = LenDf(b)]
      common_ids == SortedSeq(IndexSet(a) \cap IndexSet(b))
  IN IF ~IndexEquals(a, b)
     THEN [stop |-> common_ids = <<>>,
           res |-> [counted EXCEPT
                      !.match = FALSE, !.index_match = FALSE,
                      !.left_only_indexes = SortedSeq(IndexSet(a) \ IndexSet(b)),
                      !.right_only_indexes = SortedSeq(IndexSet(b) \ IndexSet(a)),
                      !.common_index_count = Len(common_ids)],
           df1 |-> IF common_ids = <<>> THEN a ELSE Loc(a, common_ids),
           df2 |-> IF common_ids = <<>> THEN b ELSE Loc(b, common_ids)]
     ELSE [stop |-> FALSE,
           res |-> [counted EXCEPT !.common_index_count = LenDf(a)],
           df1 |-> a, df2 |-> b]

\* ----------------------------------------------- phase 5: data comparison
\* isnull() of the cell of row i; the array cells of the hook columns are
\* never null
IsNullAt(df, i, col) == IF col \in HookCols THEN FALSE ELSE IsNull(Cell(df, i, col))

\* np.array_equal of two non-null cells: the values of an object column are
\* text and never equal a number, int and float compare by value
CellsEqual(a, b, i, col) ==
  /\ (a.dtype[col] = "object") = (b.dtype[col] = "object")
  /\ Cell(a, i, col) = Cell(b, i, col)

\* (df1[col] == df2[col]).all(): a null equals nothing, not even a null
SeriesEqualsElementwise(a, b, col) ==
  /\ a.dtype[col] = b.dtype[col]
  /\ \A i \in 1..LenDf(a) :
       ~IsNullAt(a, i, col) /\ ~IsNullAt(b, i, col) /\ CellsEqual(a, b, i, col)

\* df1[col].equals(df2[col]): same dtype, and row by row equal values or
\* nulls on both sides
SeriesEquals(a, b, col) ==
  /\ a.dtype[col] = b.dtype[col]
  /\ \A i \in 1..LenDf(a) :
       \/ IsNullAt(a, i, col) /\ IsNullAt(b, i, col)
       \/ ~IsNullAt(a, i, col) /\ ~IsNullAt(b, i, col) /\ CellsEqual(a, b, i, col)

\* df1[common_cols].equals(df2[common_cols])
FramesEqual(a, b, cols) == \A c \in Range(cols) : SeriesEquals(a, b, c)

\* np.vectorize refuses size-0 inputs: no key non-null on both sides raises
SeriesNonequalIndex(a, b, col) ==
  LET n == LenDf(a)
      null1 == {a.index[i] : i \in {j \in 1..n : IsNullAt(a, j, col)}}
      null2 == {b.index[i] : i \in {j \in 1..n : IsNullAt(b, j, col)}}
      nonequal_null_idx == (null1 \ null2) \cup (null2 \ null1)
      notnull_idx == (IndexSet(a) \ null1) \cap (IndexSet(b) \ null2)
      nonequal_notnull_idx ==
        {k \in notnull_idx : ~CellsEqual(a, b, PosOf(a, k), col)}
  IN IF notnull_idx = {} THEN [raised |-> "ValueError", idx |-> {}]
     ELSE [raised |-> "none", idx |-> nonequal_null_idx \cup nonequal_notnull_idx]

\* the condition guarding the relative-mismatch column, with Python's
\* precedence: A or (B and C)
PctCondition(ldt, rdt) == ldt = "int" \/ (ldt = "float" /\ ldt = rdt)

\* the body of the column loop for one unequal column.  Subtracting a text
\* column from a number raises TypeError; np.where yields len(df1) values,
\* which the mismatch table takes only if it has as many rows
CompareColumn(a, b, col) ==
  LET ne == SeriesNonequalIndex(a, b, col)
      m == Cardinality(ne.idx)
      n == LenDf(a)
      ldt == a.dtype[col]
      rdt == b.dtype[col]
      cr(pct) == [dtype_match |-> ldt = rdt, left_dtype |-> ldt, right_dtype |-> rdt,
                  mismatch_percent |-> [num |-> m * 100, den |-> n],
                  mismatch_number |-> m,
                  mismatch_data |-> [keys |-> ne.idx, pct |-> pct]]
  IN IF ne.raised # "none" THEN [raised |-> ne.raised, cr |-> None]
     ELSE IF PctCondition(ldt, rdt)
     THEN IF rdt = "object" THEN [raised |-> "TypeError", cr |-> None]
          ELSE IF m # n THEN [raised |-> "ValueError", cr |-> None]
          ELSE [raised |-> "none", cr |-> Some(cr(TRUE))]
     ELSE [raised |-> "none", cr |-> Some(cr(FALSE))]

RECURSIVE ColumnLoopNoSkip(_, _, _, _, _)
\* the column loop without its `if not df1[col].equals(df2[col])`
ColumnLoopNoSkip(a, b, cols, k, acc) ==
  IF k > Len(cols) THEN [raised |-> "none", column_results |-> acc]
  ELSE LET r == CompareColumn(a, b, cols[k])
       IN IF r.raised # "none" THEN [raised |-> r.raised, column_results |-> acc]
          ELSE ColumnLoopNoSkip(a, b, cols, k + 1,
                 [c \in DOMAIN acc \cup {cols[k]} |->
                    IF c = cols[k] THEN r.cr.v ELSE acc[c]])

RECURSIVE ColumnLoop(_, _, _, _, _)
\* for idx, col in enumerate(common_cols), from position k on, acc being
\* result.column_results so far
ColumnLoop(a, b, cols, k, acc) ==
  IF k > Len(cols) THEN [raised |-> "none", column_results |-> acc]
  ELSE IF SeriesEquals(a, b, cols[k]) THEN ColumnLoop(a, b, cols, k + 1, acc)
  ELSE LET r == CompareColumn(a, b, cols[k])
       IN IF r.raised # "none" THEN [raised |-> r.raised, column_results |-> acc]
          ELSE ColumnLoop(a, b, cols, k + 1,
                 [c \in DOMAIN acc \cup {cols[k]} |->
                    IF c = cols[k] THEN r.cr.v ELSE acc[c]])

\* common_cols = [col for col in df1 if col in set(df2.columns)]
CommonCols(a, b) == SelectSeq(ColOrder, LAMBDA c : c \in a.columns /\ c \in b.columns)

\* the quick check and the detailed differences
CompareFrames(res, a, b) ==
  LET common_cols == CommonCols(a, b)
  IN IF ~FramesEqual(a, b, common_cols) \/ a.columns # b.columns
     THEN LET loop == ColumnLoop(a, b, common_cols, 1, res.column_results)
          IN [raised |-> loop.raised,
              res |-> [res EXCEPT !.match = FALSE, !.data_match = FALSE,
                                  !.column_results = loop.column_results]]
     ELSE [raised |-> "none", res |-> res]

\* ----------------------------------------------------------------- inputs
Keys == 0..MaxKey

Vals == {Null} \cup (1..MaxVal)

IndexColsChoices == {<<>>, <<"id">>}

\* a sorted and an unsorted array cell of a hook column
HookCells == {<<1, 2>>, <<2, 1>>}

SortedHook == [c \in HookCols |-> <<1, 2>>]

Row(cols, k, v, d, h) ==
  [c \in cols |-> CASE c = "id" -> k
                    [] c = "val" -> v
                    [] c = "dbg" -> d
                    [] OTHER -> h[c]]

\* the declared types: id and dbg are integer columns, the hook columns hold
\* arrays, val has the type dt
DTypeOf(cols, dt) ==
  [c \in cols |-> IF c = "val" THEN dt ELSE IF c \in HookCols THEN "object" ELSE "int"]

\* an integer column holds no null
DTypeFits(rows, dt) ==
  dt = "int" => \A i \in 1..Len(rows) : "val" \in DOMAIN rows[i] => rows[i]["val"] # Null

TablesOf(cols, rowset, lens) ==
  {MkFrame(cols, DTypeOf(cols, dt), rows) :
     <<rows, dt>> \in {x \in (UNION {[1..n -> rowset] : n \in lens}) \X DTypes :
                        DTypeFits(x[1], x[2])}}

\* tables with the key column, one data column of any type and the hook
\* columns, of 0..MaxRows rows
DataTables ==
  LET cols == {"id", "val"} \cup HookCols
  IN TablesOf(cols, {Row(cols, k, v, 1, SortedHook) : k \in Keys, v \in Vals}, 0..MaxRows)

\* one-row integer tables over any subset of the data columns
ColumnTables ==
  UNION {LET cols == S \cup HookCols
         IN {MkFrame(cols, DTypeOf(cols, "int"), <<Row(cols, k, v, 1, SortedHook)>>) :
               k \in Keys, v \in 1..MaxVal}
         : S \in SUBSET DataCols}

\* one-row tables with any subset of the hook columns, their cells sorted or not
HookTables ==
  UNION {LET cols == {"id", "val"} \cup H
         IN {MkFrame(cols, DTypeOf(cols, "int"), <<Row(cols, 0, 1, 1, h)>>) :
               h \in [HookCols -> HookCells]}
         : H \in SUBSET HookCols}

\* the state at the first line of compare_data after both files have loaded
Start(a, b, ic, ig) ==
  /\ in1 = a /\ in2 = b /\ index_cols = ic /\ ignore_cols = ig
  /\ df1 = a /\ df2 = b
  /\ result = NewResult
  /\ pc = "load"
  /\ raised = "none"

InitData ==
  \E a \in DataTables, b \in DataTables, ic \in IndexColsChoices : Start(a, b, ic, {})

InitColumns ==
  \E a \in ColumnTables, b \in ColumnTables, ic \in IndexColsChoices,
     ig \in SUBSET DataCols : Start(a, b, ic, ig)

InitHook ==
  \E a \in HookTables, b \in HookTables, ic \in IndexColsChoices : Start(a, b, ic, {})

Init == InitData \/ InitColumns \/ InitHook

\* any table of the families above, compared with an identical copy
InitIdentical ==
  \E a \in DataTables \cup ColumnTables \cup HookTables, ic \in IndexColsChoices,
     ig \in SUBSET DataCols : Start(a, a, ic, ig)

\* the tables of the documented scenario: left keys 1, 2 and right keys 1, 2, 3
ScenarioLeft ==
  LET cols == {"id", "val"} \cup HookCols
  IN {MkFrame(cols, DTypeOf(cols, dt),
              <<Row(cols, 1, v1, 1, SortedHook), Row(cols, 2, v2, 1, SortedHook)>>) :
        v1 \in {10, 20}, v2 \in {10, 20}, dt \in DTypes}

ScenarioRight ==
  LET cols == {"id", "val"} \cup HookCols
  IN {MkFrame(cols, DTypeOf(cols, dt),
              <<Row(cols, 1, v1, 1, SortedHook), Row(cols, 2, v2, 1, SortedHook),
                Row(cols, 3, v3, 1, SortedHook)>>) :
        v1 \in {10, 20}, v2 \in {20, 99}, v3 \in {5, 10}, dt \in DTypes}

InitScenario ==
  \E a \in ScenarioLeft, b \in ScenarioRight, ic \in IndexColsChoices : Start(a, b, ic, {})

\* ---------------------------------------------------------------- actions
inputs == <<in1, in2, index_cols, ignore_cols>>

\* lines 100-127: pre-normalisation hook, ignore filter, column sets
Load ==
  /\ pc = "load"
  /\ LET n == PreNormalize(df1, df2, 1)
     IN IF n.raised # "none"
        THEN /\ raised' = n.raised
             /\ pc' = "raised"
             /\ UNCHANGED <<df1, df2, result>>
        ELSE LET a == IgnoreFilter(n.df1, ignore_cols)
                 b == IgnoreFilter(n.df2, ignore_cols)
             IN /\ df1' = a
                /\ df2' = b
                /\ result' = CompareColumnSets(result, a, b)
                /\ pc' = IF index_cols # <<>> THEN "index" ELSE "indices"
                /\ UNCHANGED raised
  /\ UNCHANGED inputs

\* lines 129-138: sort by and set the key columns, per side
IndexFrames ==
  /\ pc = "index"
  /\ \E a \in IndexOutcomes(df1, index_cols), b \in IndexOutcomes(df2, index_cols) :
       /\ df1' = a
       /\ df2' = b
  /\ pc' = "validate"
  /\ UNCHANGED <<inputs, result, raised>>

\* lines 140-157: duplicate keys, per side
ValidateIndices ==
  /\ pc = "validate"
  /\ result' = ValidateRight(ValidateLeft(result, df1), df2)
  /\ df1' = Deduplicated(df1)
  /\ df2' = Deduplicated(df2)
  /\ pc' = "indices"
  /\ UNCHANGED <<inputs, raised>>

\* lines 159-182: key sets, restriction to the common keys, early return
CompareIndices ==
  /\ pc = "indices"
  /\ LET r == CompareIndexes(result, df1, df2)
     IN /\ result' = r.res
        /\ df1' = r.df1
        /\ df2' = r.df2
        /\ pc' = IF r.stop THEN "done" ELSE "data"
  /\ UNCHANGED <<inputs, raised>>

\* lines 184-225: the quick check and the column loop
CompareData ==
  /\ pc = "data"
  /\ LET r == CompareFrames(result, df1, df2)
     IN /\ result' = r.res
        /\ raised' = r.raised
        /\ pc' = IF r.raised # "none" THEN "raised" ELSE "done"
  /\ UNCHANGED <<inputs, df1, df2>>

Next == Load \/ IndexFrames \/ ValidateIndices \/ CompareIndices \/ CompareData

Spec == Init /\ [][Next]_vars

SpecIdentical == InitIdentical /\ [][Next]_vars

SpecColumns == InitColumns /\ [][Next]_vars

SpecScenario == InitScenario /\ [][Next]_vars

\* ------------------------------------------------- vocabulary of the claims
Returned == pc = "done"

\* an Optional column list that is None or empty
IsEmptyOrUnset(o) == (~o.some) \/ o.v = {}

Ended == pc \in {"done", "raised"}

\* the pre-normalisation hook completes on a table
HookOk(t) == HookCols \subseteq t.columns /\ Len(t.rows) >= 1

\* the columns of an input table after the ignore filter, as specified
KeptColumns(t) ==
  IF ignore_cols # {} /\ ignore_cols \subseteq t.columns
  THEN t.columns \ ignore_cols ELSE t.columns

\* key columns are given and present on the side of input table t
KeyedSide(t) == index_cols # <<>> /\ Range(index_cols) \subseteq KeptColumns(t)

KeySet(t) == {t.rows[i][index_cols[1]] : i \in 1..Len(t.rows)}

HasRepeatedKey(t) ==
  \E i, j \in 1..Len(t.rows) :
    i # j /\ t.rows[i][index_cols[1]] = t.rows[j][index_cols[1]]

\* the cells of column col at position i of the aligned frames differ
ValuesDiffer(i, col) ==
  ~ \/ IsNullAt(df1, i, col) /\ IsNullAt(df2, i, col)
    \/ ~IsNullAt(df1, i, col) /\ ~IsNullAt(df2, i, col) /\ CellsEqual(df1, df2, i, col)

NullOnOneSide(i, col) == IsNullAt(df1, i, col) # IsNullAt(df2, i, col)

AlignedCommonCols == df1.columns \cap df2.columns

\* the data phase was entered (the frames are aligned to the common keys)
DataPhaseRan ==
  \/ pc = "done" /\ result.common_index_count > 0
  \/ pc = "raised" /\ raised \in {"ValueError", "TypeError"}

\* ------------------------------------------------------------------ C1
\* C1: in every returned CompareResult, match is true iff left_only_columns
\* and right_only_columns are both empty or unset, index_match and
\* data_match are true and neither duplicate flag is set.
C1_MatchIff ==
  Returned =>
    (result.match <=>
       /\ IsEmptyOrUnset(result.left_only_columns)
       /\ IsEmptyOrUnset(result.right_only_columns)
       /\ result.index_match
       /\ result.data_match
       /\ ~result.left_duplicate
       /\ ~result.right_duplicate)

\* a returned result whose only divergence is a duplicate key on the left
C1_Witness ==
  /\ Returned
  /\ ~result.match
  /\ result.left_duplicate /\ ~result.right_duplicate
  /\ result.index_match /\ result.data_match
  /\ ~result.left_only_columns.some

C3_NeverRaises == (HookOk(in1) /\ HookOk(in2)) => pc # "raised"

\* ------------------------------------------------------------------ C4
\* C4: whenever the data phase has run, every common column with a common
\* key k whose cell is null on exactly one side has a ColumnResult whose
\* mismatch keys (those series_nonequal_index returned) include k.
C4_NullMismatchReported ==
  DataPhaseRan =>
    \A col \in AlignedCommonCols : \A i \in 1..LenDf(df1) :
      NullOnOneSide(i, col) =>
        /\ col \in DOMAIN result.column_results
        /\ df1.index[i] \in result.column_results[col].mismatch_data.keys

\* ------------------------------------------------------------------ C5
\* C5: in every returned result, a side's duplicate flag is set exactly when
\* key columns are given and present on that side and at least two of its
\* rows share a key, and a set flag comes with match = false, also when the
\* two tables are identical.
C5_DuplicateFlags ==
  Returned =>
    /\ result.left_duplicate <=> (KeyedSide(in1) /\ HasRepeatedKey(in1))
    /\ result.right_duplicate <=> (KeyedSide(in2) /\ HasRepeatedKey(in2))
    /\ (result.left_duplicate \/ result.right_duplicate) => ~result.match

\* identical tables with a repeated key: flagged on both sides, no match,
\* although the data compared equal
C5_Witness ==
  /\ Returned /\ in1 = in2
  /\ KeyedSide(in1) /\ HasRepeatedKey(in1)
  /\ result.left_duplicate /\ result.right_duplicate
  /\ result.data_match /\ ~result.match

\* ------------------------------------------------------------------ C6
\* C6: for two keyed tables without repeated keys whose key sets differ and
\* share n >= 1 keys, compare_data returns index_match = false, the sorted
\* exclusive keys of each side, common_index_count = n and, for every common
\* column differing on m >= 1 of the n common keys, a ColumnResult with
\* mismatch_number = m and mismatch_percent = m / n * 100.
C6_KeyedMismatchCounts ==
  LET n == Cardinality(KeySet(in1) \cap KeySet(in2))
      M(col) == Cardinality({i \in 1..LenDf(df1) : ValuesDiffer(i, col)})
  IN (/\ Ended /\ HookOk(in1) /\ HookOk(in2)
      /\ KeyedSide(in1) /\ KeyedSide(in2)
      /\ ~HasRepeatedKey(in1) /\ ~HasRepeatedKey(in2)
      /\ KeySet(in1) # KeySet(in2)
      /\ n >= 1) =>
       /\ Returned
       /\ ~result.index_match
       /\ result.left_only_indexes = SortedSeq(KeySet(in1) \ KeySet(in2))
       /\ result.right_only_indexes = SortedSeq(KeySet(in2) \ KeySet(in1))
       /\ result.common_index_count = n
       /\ \A col \in AlignedCommonCols :
            M(col) >= 1 =>
              /\ col \in DOMAIN result.column_results
              /\ result.column_results[col].mismatch_number = M(col)
              /\ result.column_results[col].mismatch_percent.num * n
                   = M(col) * 100 * result.column_results[col].mismatch_percent.den

\* ------------------------------------------------------------------ C7
\* C7 as stated: column_results has an entry only for a column of both
\* tables, and every recorded ColumnResult has mismatch_number >= 1.
C7_Original ==
  Returned =>
    \A col \in DOMAIN result.column_results :
      /\ col \in in1.columns \cap in2.columns
      /\ result.column_results[col].mismatch_number >= 1

\* C7 amended: in every returned CompareResult, column_results has an entry
\* for a column only if the column is present in both tables and either its
\* values differ for at least one common key or the two sides declare
\* different element types for it: every recorded ColumnResult has
\* mismatch_number >= 1 or dtype_match = false.
C7_EntriesDiffer ==
  Returned =>
    \A col \in DOMAIN result.column_results :
      /\ col \in in1.columns \cap in2.columns
      /\ \/ /\ result.column_results[col].mismatch_number >= 1
            /\ \E i \in 1..LenDf(df1) :
                 /\ ValuesDiffer(i, col)
                 /\ df1.index[i] \in result.column_results[col].mismatch_data.keys
         \/ /\ ~result.column_results[col].dtype_match
            /\ in1.dtype[col] # in2.dtype[col]

\* a column recorded for its declared types only: float on the left, int on
\* the right, equal values
C7_Witness ==
  /\ Returned
  /\ "val" \in DOMAIN result.column_results
  /\ result.column_results["val"].mismatch_number = 0
  /\ ~result.column_results["val"].dtype_match

\* ------------------------------------------------------------------ C8
\* C8: the ignore columns are dropped from a side exactly when every ignored
\* name is a column of that side, each side decided on its own; otherwise
\* the side keeps all its columns and no error is raised; and the dropping
\* precedes the column-set comparison, the keying and the data comparison:
\* the column lists of the result are those of the filtered sides, a side
\* whose key column was dropped is not keyed, and no dropped column is
\* compared.
C8_IgnoreFilter ==
  LET k1 == KeptColumns(in1)
      k2 == KeptColumns(in2)
      keyed(k) == IF Range(index_cols) \subseteq k THEN k \ Range(index_cols) ELSE k
  IN /\ pc # "raised"
     /\ pc # "load" =>
          /\ result.left_only_columns = (IF k1 # k2 THEN Some(k1 \ k2) ELSE None)
          /\ result.right_only_columns = (IF k1 # k2 THEN Some(k2 \ k1) ELSE None)
     /\ (pc = "index" \/ (pc # "load" /\ index_cols = <<>>)) =>
          /\ df1.columns = k1
          /\ df2.columns = k2
     /\ (pc \in {"validate", "indices", "data", "done"} /\ index_cols # <<>>) =>
          /\ df1.columns = keyed(k1)
          /\ df2.columns = keyed(k2)
     /\ Returned =>
          \A col \in DOMAIN result.column_results : col \in k1 \cap k2

\* two ignored names, both on the left and only one on the right: the left
\* side lost them, the right side kept all its columns
C8_Witness ==
  /\ Returned
  /\ index_cols = <<>>
  /\ ignore_cols = {"val", "dbg"}
  /\ ignore_cols \subseteq in1.columns
  /\ "val" \in in2.columns /\ "dbg" \notin in2.columns
  /\ df1.columns = in1.columns \ ignore_cols
  /\ df2.columns = in2.columns
  /\ result.right_only_columns.some /\ "val" \in result.right_only_columns.v

\* ------------------------------------------------------------------ C9
\* C9: the relative-mismatch-percentage column is added to a mismatch table
\* only if both sides' declared type is numeric and the two sides share it.
C9_PctOnlySameNumeric ==
  Returned =>
    \A col \in DOMAIN result.column_results :
      result.column_results[col].mismatch_data.pct =>
        /\ result.column_results[col].left_dtype \in {"int", "float"}
        /\ result.column_results[col].left_dtype = result.column_results[col].right_dtype

\* ----------------------------------------------------------------- C10
\* C10: with disjoint key sets the data phase is never entered: the call
\* returns at once with match = false, index_match = false,
\* common_index_count = 0, data_match at its default true and no column
\* result, also when the column sets differ.
C10_DisjointKeysReturn ==
  (pc \in {"data", "done"} /\ IndexSet(df1) \cap IndexSet(df2) = {}) =>
    /\ Returned
    /\ ~result.match
    /\ ~result.index_match
    /\ result.common_index_count = 0
    /\ result.data_match
    /\ DOMAIN result.column_results = {}

\* disjoint keys and different column sets: returned without data analysis
C10_Witness ==
  /\ Returned
  /\ IndexSet(df1) \cap IndexSet(df2) = {}
  /\ KeyedSide(in1) /\ KeyedSide(in2)
  /\ result.left_only_columns.some
  /\ result.data_match /\ ~result.match /\ ~result.index_match

====
